---------------------------- MODULE Spec2Model ----------------------------
(***************************************************************************)
(* The one-time-password engine of ar_studios (src/otp_service.py):       *)
(* OTPService.store_otp, verify_otp, _cleanup_expired_otps and             *)
(* get_otp_status, over the shared cache store (Redis) and the in-process  *)
(* memory_store.                                                           *)
(*                                                                         *)
(* The engine's methods are operators over a "world" record                *)
(*   [use_redis, redis_client, memory_store, redis]                        *)
(* so that the same translation serves the sequential actions, the         *)
(* lock-step twin engine and the thread steps.  The specifications:        *)
(*   Spec         every call atomic, any shared-store call may raise       *)
(*   SpecReliable every call atomic, no shared-store call raises after     *)
(*                construction (the two storage modes of the engine)       *)
(*   SpecTwin     a shared-store engine and an engine constructed while    *)
(*                the store was unreachable, driven by the same calls      *)
(*   SpecConc     two request threads running verify_otp statement by      *)
(*                statement                                                *)
(*   SpecKeys     every call atomic, every key of the engine in use        *)
(*   SpecSend     send_otp and verify_otp, e-mail configured or not        *)
(*   SpecIssue    two request threads running store_otp statement by       *)
(*                statement                                                *)
(*   SpecAuth     login, verify-otp and resend-otp (src/auth_routes.py)    *)
(*   SpecSignup   the same with register, before any account exists        *)
(*   SpecAdmin    the user-management pages (src/admin_routes.py) and      *)
(*                delete_account, two requests interleaved                 *)
(*   SpecBan      restrict, ban and the dashboard's access check           *)
(***************************************************************************)
EXTENDS Integers, Sequences, FiniteSets, TLC

\* ------------------------------------------------------------- bounds
\* The clock runs from 0 to MaxClock seconds.
MaxClock == 180
\* The clock of the admin pages runs from 0 to MaxDays days.
MaxDays == 3

\* ------------------------------------------------- program constants
\* self.max_attempts = 3, and the limit with an off-by-one slip.
max_attempts_two == 3 - 1
max_attempts == 3
\* timedelta(minutes=2) in store_otp
ExpiryMinutes == 2
\* self.otp_expiry_minutes = 1, the 60 seconds the e-mail announces; no method
\* reads it.
otp_expiry_minutes == 1
\* setex(key, 120, ...) in store_otp
StoreTtl == 120
\* setex(key, 120, ...) in verify_otp, after a wrong guess
RewriteTtl == 120

\* ---------------------------------------------------------- the inputs
Purposes == {"login", "signup"}
Emails == {"a@x.com"}
\* The values generate_otp can return, and the strings a user can submit.
Codes == {"100000", "999999"}
\* How far one step of the clock moves it, in seconds.
ClockSteps == {30}
\* The same between two statements of a request thread.
ConcClockSteps == {150}
\* The same between two statements of an issuing thread.
IssueClockSteps == {60}
\* The same between two requests of a browser.
WebClockSteps == {90}
\* The same between two calls of the engine that serves both purposes.
KeysClockSteps == {150}
\* timedelta(days=1) in seconds.
SecondsPerDay == 86400
\* The 'days' field of a restriction form.
RestrictDays == {1}
\* The same for the browser that registers.
SignupClockSteps == {150}
Threads == {1, 2}

\* Python's None: an absent key, a missing value.
None == [none |-> TRUE]

\* key = f"otp:{purpose}:{email}"
Key(purpose, email) == <<"otp", purpose, email>>
Keys == {Key(p, e) : p \in Purposes, e \in Emails}
PurposeOf(key) == key[2]

\* hashlib.sha256(otp.encode()).hexdigest(): one-way, and without collisions
\* on the six-digit codes.
hash_otp(otp) == <<"sha256", otp>>

\* json.dumps / json.loads of the record: a string that loads back to it.
json_dumps(data) == [json |-> data]
json_loads(text) == text.json

\* The otp_data dict store_otp builds at time t.
NewOtpData(otp, purpose, t) ==
    [hashed_otp |-> hash_otp(otp),
     created_at |-> t,
     attempts   |-> 0,
     purpose    |-> purpose,
     expires_at |-> t + ExpiryMinutes * 60]

\* ------------------------------------------------------ the shared store
\* SETEX that keeps the value a key already has.
RedisSetexKeepsOld(redis, key, ttl, value, t) ==
    IF redis[key] # None THEN redis
    ELSE [redis EXCEPT ![key] = [value |-> value, expire_at |-> t + ttl]]
\* SETEX key ttl value at time t: the value with the time it expires at.
RedisSetex(redis, key, ttl, value, t) ==
    [redis EXCEPT ![key] = [value |-> value, expire_at |-> t + ttl]]
RedisDelete(redis, key) == [redis EXCEPT ![key] = None]
\* A key is gone once the clock has passed its expiry time.
RedisExpire(redis, t) ==
    [k \in DOMAIN redis |->
        IF redis[k] # None /\ redis[k].expire_at < t THEN None ELSE redis[k]]
RedisGet(redis, key) == IF redis[key] = None THEN None ELSE redis[key].value
RedisExists(redis, key) == redis[key] # None

\* The shared-store calls of one method call that can raise redis.RedisError.
NoFault == "none"
Faults == {"get", "delete", "setex", "exists"}

\* --------------------------------------------------------- the messages
MsgVerified == "OTP verified successfully"
MsgInvalid == "Invalid OTP"
MsgTooMany == "Too many failed attempts. Please request a new OTP."
MsgExpired == "OTP has expired"
MsgMissing == "OTP has expired or doesn't exist"
\* send_otp and send_otp_email
MsgSent == "OTP sent successfully"
MsgStoreFailed == "Failed to store OTP"
MsgEmailDisabled == "Email sending is not configured. Please contact support."
MsgSmtpAuth ==
    "Failed to authenticate with the email server. Please check your SMTP credentials."
MsgSmtpFailed == "Failed to send email"
\* What the SMTP session of one send_otp_email does: the message is sent,
\* login raises SMTPAuthenticationError, or another SMTPException is raised.
Smtp == {"sent", "auth_error", "smtp_error"}

\* ------------------------------------------------------------ the engine
\* OTPService.__init__: reachable says whether ping() answered.
NewService(reachable) ==
    [use_redis    |-> reachable,
     redis_client |-> reachable,
     memory_store |-> [k \in Keys |-> None],
     redis        |-> [k \in Keys |-> None]]

\* What one method call leaves behind: the world after it, the value returned
\* (or the exception that escaped), whether it sent the shared store a command
\* and whether a shared-store command raised.
Out(w, ok, msg, exc, touched, raised) ==
    [w |-> w, ok |-> ok, msg |-> msg, exc |-> exc,
     touched |-> touched, raised |-> raised]
\* The same outcome, after a shared-store command of the call raised.
AfterRaise(o) == [o EXCEPT !.touched = TRUE, !.raised = TRUE]

\* store_otp reporting the shared store's failure instead of falling back.
store_otp_propagates(w, key, otp, t, fault) ==
    LET otp_data == NewOtpData(otp, PurposeOf(key), t) IN
    IF w.use_redis /\ w.redis_client
    THEN IF fault = "setex"
         THEN Out(w, FALSE, "", "none", TRUE, TRUE)
         ELSE Out([w EXCEPT !.redis =
                      RedisSetex(w.redis, key, StoreTtl, json_dumps(otp_data), t)],
                  TRUE, "", "none", TRUE, FALSE)
    ELSE Out([w EXCEPT !.memory_store[key] = otp_data],
             TRUE, "", "none", FALSE, FALSE)

\* store_otp(email, otp, purpose) at time t; fault names the store call that
\* raises.
store_otp(w, key, otp, t, fault) ==
    LET otp_data == NewOtpData(otp, PurposeOf(key), t)
        in_memory(raised) ==
            Out([w EXCEPT !.use_redis = IF raised THEN FALSE ELSE w.use_redis,
                          !.memory_store[key] = otp_data],
                TRUE, "", "none", raised, raised)
    IN
    IF w.use_redis /\ w.redis_client
    THEN IF fault = "setex"
         THEN in_memory(TRUE)
         ELSE Out([w EXCEPT !.redis =
                      RedisSetex(w.redis, key, StoreTtl, json_dumps(otp_data), t)],
                  TRUE, "", "none", TRUE, FALSE)
    ELSE in_memory(FALSE)

\* A clean-up that empties memory_store.
cleanup_removes_all(memory_store, t) == [k \in DOMAIN memory_store |-> None]
\* _cleanup_expired_otps at time t.
cleanup_expired_otps(memory_store, t) ==
    [k \in DOMAIN memory_store |->
        IF memory_store[k] # None /\ memory_store[k].expires_at < t
        THEN None ELSE memory_store[k]]

\* memory_check with "attempts > max_attempts": one guess too many is counted.
memory_check_gt(w, key, otp, t) ==
    LET otp_data == w.memory_store[key]
        popped == [w EXCEPT !.memory_store[key] = None]
    IN
    IF otp_data = None
    THEN Out(w, FALSE, MsgMissing, "none", FALSE, FALSE)
    ELSE IF otp_data.expires_at < t
    THEN Out(popped, FALSE, MsgExpired, "none", FALSE, FALSE)
    ELSE IF otp_data.attempts > max_attempts
    THEN Out(popped, FALSE, MsgTooMany, "none", FALSE, FALSE)
    ELSE IF hash_otp(otp) = otp_data.hashed_otp
    THEN Out(popped, TRUE, MsgVerified, "none", FALSE, FALSE)
    ELSE Out([w EXCEPT !.memory_store[key].attempts = otp_data.attempts + 1],
             FALSE, MsgInvalid, "none", FALSE, FALSE)

\* memory_check comparing the hash before it looks at the attempts.
memory_check_compare_first(w, key, otp, t) ==
    LET otp_data == w.memory_store[key]
        popped == [w EXCEPT !.memory_store[key] = None]
    IN
    IF otp_data = None
    THEN Out(w, FALSE, MsgMissing, "none", FALSE, FALSE)
    ELSE IF otp_data.expires_at < t
    THEN Out(popped, FALSE, MsgExpired, "none", FALSE, FALSE)
    ELSE IF hash_otp(otp) = otp_data.hashed_otp
    THEN Out(popped, TRUE, MsgVerified, "none", FALSE, FALSE)
    ELSE IF otp_data.attempts >= max_attempts
    THEN Out(popped, FALSE, MsgTooMany, "none", FALSE, FALSE)
    ELSE Out([w EXCEPT !.memory_store[key].attempts = otp_data.attempts + 1],
             FALSE, MsgInvalid, "none", FALSE, FALSE)

\* memory_check answering TooManyAttempts without popping the record.
memory_check_keep_locked(w, key, otp, t) ==
    LET otp_data == w.memory_store[key]
        popped == [w EXCEPT !.memory_store[key] = None]
    IN
    IF otp_data = None
    THEN Out(w, FALSE, MsgMissing, "none", FALSE, FALSE)
    ELSE IF otp_data.expires_at < t
    THEN Out(popped, FALSE, MsgExpired, "none", FALSE, FALSE)
    ELSE IF otp_data.attempts >= max_attempts
    THEN Out(w, FALSE, MsgTooMany, "none", FALSE, FALSE)
    ELSE IF hash_otp(otp) = otp_data.hashed_otp
    THEN Out(popped, TRUE, MsgVerified, "none", FALSE, FALSE)
    ELSE Out([w EXCEPT !.memory_store[key].attempts = otp_data.attempts + 1],
             FALSE, MsgInvalid, "none", FALSE, FALSE)

\* memory_check dropping the record on a wrong guess.
memory_check_pops_wrong(w, key, otp, t) ==
    LET otp_data == w.memory_store[key]
        popped == [w EXCEPT !.memory_store[key] = None]
    IN
    IF otp_data = None
    THEN Out(w, FALSE, MsgMissing, "none", FALSE, FALSE)
    ELSE IF otp_data.expires_at < t
    THEN Out(popped, FALSE, MsgExpired, "none", FALSE, FALSE)
    ELSE IF otp_data.attempts >= max_attempts
    THEN Out(popped, FALSE, MsgTooMany, "none", FALSE, FALSE)
    ELSE IF hash_otp(otp) = otp_data.hashed_otp
    THEN Out(popped, TRUE, MsgVerified, "none", FALSE, FALSE)
    ELSE Out(popped, FALSE, MsgInvalid, "none", FALSE, FALSE)

\* verify_otp, lines 134-158: the in-memory check.
memory_check(w, key, otp, t) ==
    LET otp_data == w.memory_store[key]
        popped == [w EXCEPT !.memory_store[key] = None]
    IN
    IF otp_data = None
    THEN Out(w, FALSE, MsgMissing, "none", FALSE, FALSE)
    ELSE IF otp_data.expires_at < t
    THEN Out(popped, FALSE, MsgExpired, "none", FALSE, FALSE)
    ELSE IF otp_data.attempts >= max_attempts
    THEN Out(popped, FALSE, MsgTooMany, "none", FALSE, FALSE)
    ELSE IF hash_otp(otp) = otp_data.hashed_otp
    THEN Out(popped, TRUE, MsgVerified, "none", FALSE, FALSE)
    ELSE Out([w EXCEPT !.memory_store[key].attempts = otp_data.attempts + 1],
             FALSE, MsgInvalid, "none", FALSE, FALSE)

\* redis_check answering success without deleting the key.
redis_check_reusable(w, key, otp, t, fault) ==
    LET stored_data == RedisGet(w.redis, key)
        fall_through == memory_check(w, key, otp, t)
        deleted == [w EXCEPT !.redis = RedisDelete(w.redis, key)]
    IN
    IF fault = "get"
    THEN AfterRaise(fall_through)
    ELSE IF stored_data = None
    THEN [fall_through EXCEPT !.touched = TRUE]
    ELSE LET otp_data == json_loads(stored_data) IN
         IF otp_data.attempts >= max_attempts
         THEN IF fault = "delete" THEN AfterRaise(fall_through)
              ELSE Out(deleted, FALSE, MsgTooMany, "none", TRUE, FALSE)
         ELSE IF hash_otp(otp) = otp_data.hashed_otp
         THEN Out(w, TRUE, MsgVerified, "none", TRUE, FALSE)
         ELSE IF fault = "setex" THEN AfterRaise(fall_through)
              ELSE Out([w EXCEPT !.redis =
                          RedisSetex(w.redis, key, RewriteTtl,
                              json_dumps([otp_data EXCEPT
                                  !.attempts = otp_data.attempts + 1]), t)],
                       FALSE, MsgInvalid, "none", TRUE, FALSE)

\* redis_check answering a wrong guess without counting it.
redis_check_uncounted(w, key, otp, t, fault) ==
    LET stored_data == RedisGet(w.redis, key)
        fall_through == memory_check(w, key, otp, t)
        deleted == [w EXCEPT !.redis = RedisDelete(w.redis, key)]
    IN
    IF fault = "get"
    THEN AfterRaise(fall_through)
    ELSE IF stored_data = None
    THEN [fall_through EXCEPT !.touched = TRUE]
    ELSE LET otp_data == json_loads(stored_data) IN
         IF otp_data.attempts >= max_attempts
         THEN IF fault = "delete" THEN AfterRaise(fall_through)
              ELSE Out(deleted, FALSE, MsgTooMany, "none", TRUE, FALSE)
         ELSE IF hash_otp(otp) = otp_data.hashed_otp
         THEN IF fault = "delete" THEN AfterRaise(fall_through)
              ELSE Out(deleted, TRUE, MsgVerified, "none", TRUE, FALSE)
         ELSE Out(w, FALSE, MsgInvalid, "none", TRUE, FALSE)

\* verify_otp, lines 106-132: the shared-store branch.  A store call that
\* raises leaves the store as it was and falls through to the in-memory check.
redis_check(w, key, otp, t, fault) ==
    LET stored_data == RedisGet(w.redis, key)
        fall_through == memory_check(w, key, otp, t)
        deleted == [w EXCEPT !.redis = RedisDelete(w.redis, key)]
    IN
    IF fault = "get"
    THEN AfterRaise(fall_through)
    ELSE IF stored_data = None
    THEN [fall_through EXCEPT !.touched = TRUE]
    ELSE LET otp_data == json_loads(stored_data) IN
         IF otp_data.attempts >= max_attempts
         THEN IF fault = "delete" THEN AfterRaise(fall_through)
              ELSE Out(deleted, FALSE, MsgTooMany, "none", TRUE, FALSE)
         ELSE IF hash_otp(otp) = otp_data.hashed_otp
         THEN IF fault = "delete" THEN AfterRaise(fall_through)
              ELSE Out(deleted, TRUE, MsgVerified, "none", TRUE, FALSE)
         ELSE IF fault = "setex" THEN AfterRaise(fall_through)
              ELSE Out([w EXCEPT !.redis =
                          RedisSetex(w.redis, key, RewriteTtl,
                              json_dumps([otp_data EXCEPT
                                  !.attempts = otp_data.attempts + 1]), t)],
                       FALSE, MsgInvalid, "none", TRUE, FALSE)

\* verify_otp(email, otp, purpose) at time t.
verify_otp(w, key, otp, t, fault) ==
    LET w1 == [w EXCEPT !.memory_store = cleanup_expired_otps(w.memory_store, t)] IN
    IF w1.use_redis /\ w1.redis_client
    THEN redis_check(w1, key, otp, t, fault)
    ELSE memory_check(w1, key, otp, t)

\* get_otp_status(email, purpose): self.redis_client.exists(key), whatever
\* use_redis says.  With redis_client None the attribute lookup raises, and a
\* RedisError is not caught.
get_otp_status(w, key, fault) ==
    IF ~w.redis_client
    THEN Out(w, FALSE, "", "AttributeError", FALSE, FALSE)
    ELSE IF fault = "exists"
    THEN Out(w, FALSE, "", "RedisError", TRUE, TRUE)
    ELSE Out(w, RedisExists(w.redis, key), "", "none", TRUE, FALSE)

\* send_otp_email(email, otp, purpose): (success, message).  smtp_server has
\* its default, so the configuration is incomplete only when e-mail is
\* disabled.
send_otp_email(enabled, smtp) ==
    IF ~enabled THEN [ok |-> FALSE, msg |-> MsgEmailDisabled]
    ELSE IF smtp = "sent" THEN [ok |-> TRUE, msg |-> "Email sent successfully"]
    ELSE IF smtp = "auth_error" THEN [ok |-> FALSE, msg |-> MsgSmtpAuth]
    ELSE [ok |-> FALSE, msg |-> MsgSmtpFailed]

\* send_otp taking the record back when the e-mail is not sent.
send_otp_rollback(w, enabled, key, otp, t, fault, smtp) ==
    LET stored == store_otp(w, key, otp, t, fault)
        sent == send_otp_email(enabled, smtp)
    IN
    IF ~stored.ok
    THEN [stored EXCEPT !.ok = FALSE, !.msg = MsgStoreFailed]
    ELSE IF ~sent.ok
    THEN [stored EXCEPT !.ok = FALSE, !.msg = sent.msg,
                        !.w.redis[key] = None, !.w.memory_store[key] = None]
    ELSE [stored EXCEPT !.ok = TRUE, !.msg = MsgSent]

\* send_otp(email, purpose) at time t; otp is what generate_otp returned.
send_otp(w, enabled, key, otp, t, fault, smtp) ==
    LET stored == store_otp(w, key, otp, t, fault)
        sent == send_otp_email(enabled, smtp)
    IN
    IF ~stored.ok
    THEN [stored EXCEPT !.ok = FALSE, !.msg = MsgStoreFailed]
    ELSE IF ~sent.ok
    THEN [stored EXCEPT !.ok = FALSE, !.msg = sent.msg]
    ELSE [stored EXCEPT !.ok = TRUE, !.msg = MsgSent]

\* The outcome category of a verify_otp result.
Category(o) ==
    IF o.ok THEN "Success"
    ELSE IF o.msg = MsgInvalid THEN "InvalidCode"
    ELSE IF o.msg = MsgTooMany THEN "TooManyAttempts"
    ELSE "NotFoundOrExpired"

\* ------------------------------------------------------------- the state
VARIABLES
    now,            \* the clock (datetime.utcnow()), in seconds
    use_redis,      \* self.use_redis
    redis_client,   \* self.redis_client is not None
    memory_store,   \* self.memory_store
    redis,          \* the keys of the shared store
    ret,            \* the call the last step made, and what it returned
    issued,         \* per key: the code last stored and when (None: never)
    wins,           \* per key: successes returned since the last store
    guesses,        \* per key: wrong codes answered InvalidCode or
                    \* TooManyAttempts since the last store
    locked,         \* per key: TooManyAttempts was answered since the last store
    failed,         \* a shared-store command has raised since construction
    twin,           \* SpecTwin: the engine constructed with the store unreachable
    twin_ret,       \* SpecTwin: what the twin's last call returned
    th,             \* SpecConc: the request threads
    active,         \* the keys this run's requests are for
    email_enabled,  \* self.email_enabled
    session,        \* flask.session of the one browser
    current_user,   \* flask_login's current_user of that browser
    user,           \* the account row: two_factor_enabled, otp_verified
    resp,           \* the route the last request went to and how it ended
    dead,           \* a code submission was answered TooManyAttempts or
                    \* NotFoundOrExpired and no send_otp has run since
    accounts,       \* the user table of the admin pages: per id, the row
    areq            \* the admin and profile requests being handled

engine == <<use_redis, redis_client, memory_store, redis>>
ghost == <<issued, wins, guesses, locked, failed>>
vars == <<now, use_redis, redis_client, memory_store, redis, ret,
          issued, wins, guesses, locked, failed, twin, twin_ret, th, active,
          email_enabled, session, current_user, user, resp, dead,
          accounts, areq>>
\* What no call of store_otp, verify_otp or get_otp_status writes.
web == <<email_enabled, session, current_user, user, resp, dead,
        accounts, areq>>

World ==
    [use_redis |-> use_redis, redis_client |-> redis_client,
     memory_store |-> memory_store, redis |-> redis]

\* No key: the key of no call.
NoKey == <<>>
NoCall ==
    [op |-> "none", key |-> NoKey, otp |-> "", ok |-> FALSE, msg |-> "",
     exc |-> "none", touched |-> FALSE, raised |-> FALSE]
\* The record of a call: its arguments and its outcome.
CallOf(op, key, otp, o) ==
    [op |-> op, key |-> key, otp |-> otp, ok |-> o.ok, msg |-> o.msg,
     exc |-> o.exc, touched |-> o.touched, raised |-> o.raised]

\* A request thread outside verify_otp.  Inside it: the statement it is at, its
\* arguments, its otp_data, whether otp_data is the dict memory_store holds
\* under the key (ref) or a dict no longer in memory_store that the other
\* thread's otp_data names too (shared), the attempts it has read, and whether
\* a store_otp for the key has run since the call began (stale).
Idle ==
    [pc |-> "idle", key |-> NoKey, otp |-> "", data |-> None, ref |-> FALSE,
     shared |-> FALSE, seen |-> 0, stale |-> FALSE]

\* The account row: whether two-factor login is enabled for it and whether
\* its e-mail address has been verified by a code.  Before the account is
\* registered there is no row (None).
NewUser(two_factor) ==
    [two_factor_enabled |-> two_factor, otp_verified |-> FALSE]
\* user.mark_otp_verified()
mark_otp_verified(u) == [u EXCEPT !.otp_verified = TRUE]
\* "if user.two_factor_enabled:" with the test left out.
TwoFactorIgnored(u) == FALSE
\* "if user.two_factor_enabled:" in login.
TwoFactorEnabled(u) == u.two_factor_enabled

\* The session of a browser that has sent no request: no pending_user_id
\* (0), pending_purpose or pending_next (""), pending_remember read as False.
NoSession ==
    [pending_user_id |-> 0, pending_remember |-> FALSE,
     pending_next |-> "", pending_purpose |-> ""]
\* current_user before login_user: is_authenticated is False.
Anonymous == [id |-> 0, remember |-> FALSE]
NoResp == [route |-> "none", result |-> "", target |-> ""]

\* The ids of the rows of the user table.
Ids == {1, 2, 3}
Roles == {"admin", "designer", "client"}
\* A row of the user table as register creates it, with the given role: not
\* restricted, not banned.
UserRow(role) ==
    [role |-> role,
     is_restricted |-> FALSE, restriction_until |-> None,
     restriction_reason |-> None,
     is_banned |-> FALSE, ban_reason |-> None, banned_at |-> None]
\* No row under any id.
NoAccounts == [i \in Ids |-> None]
\* A request thread that handles no request.
NoRequest ==
    [pc |-> "idle", op |-> "", actor |-> 0, target |-> 0, role |-> "",
     seen |-> ""]

\* The application after start-up: the engine constructed, one account row,
\* one browser that is not logged in.
InitTable(reachable, keys, enabled, row, table) ==
    /\ accounts = table
    /\ areq = [t \in Threads |-> NoRequest]
    /\ session = NoSession
    /\ current_user = Anonymous
    /\ user = row
    /\ resp = NoResp
    /\ dead = FALSE
    /\ active = keys
    /\ email_enabled = enabled
    /\ now = 0
    /\ use_redis = NewService(reachable).use_redis
    /\ redis_client = NewService(reachable).redis_client
    /\ memory_store = NewService(reachable).memory_store
    /\ redis = NewService(reachable).redis
    /\ ret = NoCall
    /\ issued = [k \in Keys |-> None]
    /\ wins = [k \in Keys |-> 0]
    /\ guesses = [k \in Keys |-> 0]
    /\ locked = [k \in Keys |-> FALSE]
    /\ failed = FALSE
    /\ twin = NewService(FALSE)
    /\ twin_ret = NoCall
    /\ th = [t \in Threads |-> Idle]

\* The engine alone.
InitSite(reachable, keys, enabled, row) ==
    InitTable(reachable, keys, enabled, row, NoAccounts)
InitEngine(reachable, keys, enabled) ==
    InitSite(reachable, keys, enabled, NewUser(FALSE))

\* The same with SMTP_USERNAME and SMTP_PASSWORD set.
InitWith(reachable, keys) == InitEngine(reachable, keys, TRUE)

\* The engine after construction: the shared store answered the ping or not.
Init == \E reachable \in BOOLEAN, k \in Keys : InitWith(reachable, {k})

\* The world becomes o.w and the call is recorded.
Becomes(o, op, key, otp) ==
    /\ use_redis' = o.w.use_redis
    /\ redis_client' = o.w.redis_client
    /\ memory_store' = o.w.memory_store
    /\ redis' = o.w.redis
    /\ ret' = CallOf(op, key, otp, o)
    /\ failed' = (failed \/ o.raised)

IsIssued(key, otp) == issued[key] # None /\ issued[key].code = otp

\* What a verify_otp that returned o adds to the history of its key.
Answered(key, otp, o) ==
    /\ wins' = [wins EXCEPT ![key] = IF o.ok /\ @ < 2 THEN @ + 1 ELSE @]
    /\ guesses' = [guesses EXCEPT ![key] =
          IF ~IsIssued(key, otp) /\ Category(o) \in {"InvalidCode", "TooManyAttempts"}
          THEN @ + 1 ELSE @]
    /\ locked' = [locked EXCEPT ![key] = @ \/ Category(o) = "TooManyAttempts"]

\* One call of store_otp.
StoreCall(key, otp, fault) ==
    /\ Becomes(store_otp(World, key, otp, now, fault), "store", key, otp)
    /\ issued' = [issued EXCEPT ![key] = [code |-> otp, at |-> now]]
    /\ wins' = [wins EXCEPT ![key] = 0]
    /\ guesses' = [guesses EXCEPT ![key] = 0]
    /\ locked' = [locked EXCEPT ![key] = FALSE]
    /\ now' = now

\* One call of verify_otp.
VerifyCall(key, otp, fault) ==
    LET o == verify_otp(World, key, otp, now, fault) IN
    /\ Becomes(o, "verify", key, otp)
    /\ Answered(key, otp, o)
    /\ UNCHANGED <<issued, now>>

\* One call of get_otp_status.
StatusCall(key, fault) ==
    /\ Becomes(get_otp_status(World, key, fault), "status", key, "")
    /\ UNCHANGED <<issued, wins, guesses, locked, now>>

\* Time passes; the shared store drops the keys whose time is up.
ClockCall(d) ==
    /\ now + d <= MaxClock
    /\ now' = now + d
    /\ redis' = RedisExpire(redis, now + d)
    /\ ret' = NoCall
    /\ UNCHANGED <<use_redis, redis_client, memory_store, ghost>>

\* --------------------------------------------- the sequential actions
StoreOtp == \E k \in active, c \in Codes :
    StoreCall(k, c, NoFault) /\ UNCHANGED <<twin, twin_ret, th, active, web>>
VerifyOtp == \E k \in active, c \in Codes :
    VerifyCall(k, c, NoFault) /\ UNCHANGED <<twin, twin_ret, th, active, web>>
GetOtpStatus == \E k \in active :
    StatusCall(k, NoFault) /\ UNCHANGED <<twin, twin_ret, th, active, web>>
Tick == \E d \in ClockSteps :
    ClockCall(d) /\ UNCHANGED <<twin, twin_ret, th, active, web>>

\* The same calls with one shared-store command raising redis.RedisError.
StoreOtpFault == \E k \in active, c \in Codes :
    /\ use_redis /\ redis_client
    /\ StoreCall(k, c, "setex") /\ UNCHANGED <<twin, twin_ret, th, active, web>>
VerifyOtpFault == \E k \in active, c \in Codes, f \in {"get", "delete", "setex"} :
    /\ verify_otp(World, k, c, now, f).raised
    /\ VerifyCall(k, c, f) /\ UNCHANGED <<twin, twin_ret, th, active, web>>
GetOtpStatusFault == \E k \in active :
    /\ redis_client
    /\ StatusCall(k, "exists") /\ UNCHANGED <<twin, twin_ret, th, active, web>>

NextReliable == StoreOtp \/ VerifyOtp \/ GetOtpStatus \/ Tick
Next == NextReliable \/ StoreOtpFault \/ VerifyOtpFault \/ GetOtpStatusFault

\* Every call atomic; any shared-store command may raise.
Spec == Init /\ [][Next]_vars
\* Every call atomic; no shared-store command raises after construction.
SpecReliable == Init /\ [][NextReliable]_vars

\* Time passes between two calls of the engine that serves both purposes.
KeysTick == \E d \in KeysClockSteps :
    ClockCall(d) /\ UNCHANGED <<twin, twin_ret, th, active, web>>
InitKeys == \E reachable \in BOOLEAN : InitWith(reachable, Keys)
NextKeys ==
    StoreOtp \/ VerifyOtp \/ StoreOtpFault \/ VerifyOtpFault \/ KeysTick
\* Calls for both purposes of one recipient on one engine; any shared-store
\* command of store_otp and verify_otp may raise.
SpecKeys == InitKeys /\ [][NextKeys]_vars

\* ------------------------------------------------------ issue and deliver
\* One call of send_otp: generate_otp returned otp.
SendCall(key, otp, fault, smtp) ==
    /\ Becomes(send_otp(World, email_enabled, key, otp, now, fault, smtp),
               "send", key, otp)
    /\ issued' = [issued EXCEPT ![key] = [code |-> otp, at |-> now]]
    /\ wins' = [wins EXCEPT ![key] = 0]
    /\ guesses' = [guesses EXCEPT ![key] = 0]
    /\ locked' = [locked EXCEPT ![key] = FALSE]
    /\ now' = now

SendOtp == \E k \in active, c \in Codes, smtp \in Smtp :
    SendCall(k, c, NoFault, smtp) /\ UNCHANGED <<twin, twin_ret, th, active, web>>
\* send_otp whose setex raises redis.RedisError.
SendOtpFault == \E k \in active, c \in Codes, smtp \in Smtp :
    /\ use_redis /\ redis_client
    /\ SendCall(k, c, "setex", smtp) /\ UNCHANGED <<twin, twin_ret, th, active, web>>

InitSend == \E reachable \in BOOLEAN, enabled \in BOOLEAN, k \in Keys :
    InitEngine(reachable, {k}, enabled)
NextSend == SendOtp \/ SendOtpFault \/ VerifyOtp \/ VerifyOtpFault \/ Tick
\* Codes are issued by send_otp, with e-mail configured or not; any
\* shared-store command of send_otp and verify_otp may raise.
SpecSend == InitSend /\ [][NextSend]_vars

\* ------------------------------------------------- the twin engines
\* The twin, constructed while the shared store was unreachable, is given the
\* call the shared-store engine is given.
TwinBecomes(o, op, key, otp) ==
    /\ twin' = o.w
    /\ twin_ret' = CallOf(op, key, otp, o)

TwinStore == \E k \in active, c \in Codes :
    /\ StoreCall(k, c, NoFault)
    /\ TwinBecomes(store_otp(twin, k, c, now, NoFault), "store", k, c)
    /\ UNCHANGED <<th, active, web>>
TwinVerify == \E k \in active, c \in Codes :
    /\ VerifyCall(k, c, NoFault)
    /\ TwinBecomes(verify_otp(twin, k, c, now, NoFault), "verify", k, c)
    /\ UNCHANGED <<th, active, web>>
TwinTick == \E d \in ClockSteps :
    /\ ClockCall(d)
    /\ twin' = [twin EXCEPT !.redis = RedisExpire(twin.redis, now + d)]
    /\ twin_ret' = NoCall
    /\ UNCHANGED <<th, active, web>>

InitTwin == \E k \in Keys : InitWith(TRUE, {k})
NextTwin == TwinStore \/ TwinVerify \/ TwinTick
\* An engine on a reachable shared store and an engine constructed while the
\* store was unreachable, given the same calls at the same times.
SpecTwin == InitTwin /\ [][NextTwin]_vars

\* ------------------------------------------------ the request threads
\* The dict that thread t's otp_data names.
ObjOf(t) == IF th[t].ref THEN memory_store[th[t].key] ELSE th[t].data

\* memory_store loses or replaces the dicts under the keys ks: a thread whose
\* otp_data is one of them keeps the dict.
ReleasedKeys(threads, ks) ==
    [t \in Threads |->
        IF threads[t].ref /\ threads[t].key \in ks
        THEN [threads[t] EXCEPT
                 !.ref = FALSE,
                 !.data = memory_store[threads[t].key],
                 !.shared = \E u \in Threads \ {t} :
                               threads[u].ref /\ threads[u].key = threads[t].key]
        ELSE threads[t]]

\* Thread t returns (ok, msg) from verify_otp; threads is th after the
\* statement that returns.
Returns(t, threads, ok, msg) ==
    LET o == Out(World, ok, msg, "none", FALSE, FALSE) IN
    /\ th' = [u \in Threads |->
                IF u = t THEN Idle ELSE [threads[u] EXCEPT !.shared = FALSE]]
    /\ ret' = CallOf("verify", th[t].key, th[t].otp, o)
    /\ IF th[t].stale
       THEN UNCHANGED <<wins, guesses, locked>>
       ELSE Answered(th[t].key, th[t].otp, o)
    /\ UNCHANGED <<now, use_redis, redis_client, issued, failed,
                   twin, twin_ret, active, web>>

\* Thread t moves to statement pc without returning.
Goes(t, rec) ==
    /\ th' = [th EXCEPT ![t] = rec]
    /\ ret' = NoCall
    /\ UNCHANGED <<now, use_redis, redis_client, ghost, twin, twin_ret, active, web>>

\* Lines 98-106: verify_otp is entered, expired dicts leave memory_store.
CBegin == \E t \in Threads, k \in active, c \in Codes :
    LET expired == {j \in Keys : memory_store[j] # None
                                 /\ memory_store[j].expires_at < now} IN
    /\ th[t].pc = "idle"
    /\ memory_store' = cleanup_expired_otps(memory_store, now)
    /\ th' = [ReleasedKeys(th, expired) EXCEPT ![t] =
                [Idle EXCEPT !.pc = IF use_redis /\ redis_client
                                    THEN "get" ELSE "lookup",
                             !.key = k, !.otp = c]]
    /\ ret' = NoCall
    /\ UNCHANGED <<now, use_redis, redis_client, redis, ghost,
                   twin, twin_ret, active, web>>

\* Lines 108-119: the record is read from the shared store and judged.
CGet == \E t \in Threads :
    LET stored_data == RedisGet(redis, th[t].key)
        otp_data == json_loads(stored_data)
    IN
    /\ th[t].pc = "get"
    /\ Goes(t, IF stored_data = None
               THEN [th[t] EXCEPT !.pc = "lookup"]
               ELSE [th[t] EXCEPT
                       !.data = otp_data,
                       !.pc = IF otp_data.attempts >= max_attempts
                              THEN "delete_locked"
                              ELSE IF hash_otp(th[t].otp) = otp_data.hashed_otp
                              THEN "delete_ok" ELSE "setex"])
    /\ UNCHANGED <<memory_store, redis>>

\* Lines 114-115 and 121-122: the key is deleted and the call returns.
CRedisDelete == \E t \in Threads :
    /\ th[t].pc \in {"delete_locked", "delete_ok"}
    /\ redis' = RedisDelete(redis, th[t].key)
    /\ IF th[t].pc = "delete_ok"
       THEN Returns(t, th, TRUE, MsgVerified)
       ELSE Returns(t, th, FALSE, MsgTooMany)
    /\ UNCHANGED memory_store

\* Lines 125-127: the record is written back with one more attempt.
CRedisSetex == \E t \in Threads :
    /\ th[t].pc = "setex"
    /\ redis' = RedisSetex(redis, th[t].key, RewriteTtl,
                    json_dumps([th[t].data EXCEPT !.attempts = @ + 1]), now)
    /\ Returns(t, th, FALSE, MsgInvalid)
    /\ UNCHANGED memory_store

\* Lines 135-138 and 158: the dict is looked up in memory_store.
CLookup == \E t \in Threads :
    LET otp_data == memory_store[th[t].key] IN
    /\ th[t].pc = "lookup"
    /\ IF otp_data = None
       THEN Returns(t, th, FALSE, MsgMissing)
       ELSE Goes(t, [th[t] EXCEPT
                       !.ref = TRUE,
                       !.pc = IF otp_data.expires_at < now
                              THEN "pop_expired" ELSE "attempts"])
    /\ UNCHANGED <<memory_store, redis>>

\* Lines 143 and 148-149: the attempts are read, then the hashes compared.
CAttempts == \E t \in Threads :
    /\ th[t].pc = "attempts"
    /\ Goes(t, [th[t] EXCEPT
                  !.pc = IF ObjOf(t).attempts >= max_attempts
                         THEN "pop_locked"
                         ELSE IF hash_otp(th[t].otp) = ObjOf(t).hashed_otp
                         THEN "pop_ok" ELSE "read"])
    /\ UNCHANGED <<memory_store, redis>>

\* Lines 139-140, 144-145 and 151-152: whatever memory_store holds under the
\* key is popped and the call returns.
CPop == \E t \in Threads :
    /\ th[t].pc \in {"pop_expired", "pop_locked", "pop_ok"}
    /\ memory_store' = [memory_store EXCEPT ![th[t].key] = None]
    /\ Returns(t, ReleasedKeys(th, {th[t].key}),
               th[t].pc = "pop_ok",
               IF th[t].pc = "pop_ok" THEN MsgVerified
               ELSE IF th[t].pc = "pop_locked" THEN MsgTooMany ELSE MsgExpired)
    /\ UNCHANGED redis

\* Line 155, right-hand side: otp_data.get('attempts', 0) is read.
CIncrRead == \E t \in Threads :
    /\ th[t].pc = "read"
    /\ Goes(t, [th[t] EXCEPT !.seen = ObjOf(t).attempts, !.pc = "write"])
    /\ UNCHANGED <<memory_store, redis>>

\* Lines 155-156: otp_data['attempts'] is assigned and the call returns.
CIncrWrite == \E t \in Threads :
    /\ th[t].pc = "write"
    /\ memory_store' =
          IF th[t].ref
          THEN [memory_store EXCEPT ![th[t].key].attempts = th[t].seen + 1]
          ELSE memory_store
    /\ Returns(t,
               [u \in Threads |->
                   IF u # t /\ th[t].shared /\ th[u].shared
                   THEN [th[u] EXCEPT !.data.attempts = th[t].seen + 1]
                   ELSE th[u]],
               FALSE, MsgInvalid)
    /\ UNCHANGED redis

\* store_otp, run between the statements of the threads.
CStore == \E k \in active, c \in Codes :
    /\ StoreCall(k, c, NoFault)
    /\ th' = [t \in Threads |->
                LET rec == IF use_redis /\ redis_client
                           THEN th[t] ELSE ReleasedKeys(th, {k})[t]
                IN IF rec.key = k THEN [rec EXCEPT !.stale = TRUE] ELSE rec]
    /\ UNCHANGED <<twin, twin_ret, active, web>>

\* Between two statements of a thread the clock may pass every expiry time.
CTick == \E d \in ConcClockSteps :
    ClockCall(d) /\ UNCHANGED <<twin, twin_ret, th, active, web>>

NextConc ==
    \/ CBegin \/ CGet \/ CRedisDelete \/ CRedisSetex
    \/ CLookup \/ CAttempts \/ CPop \/ CIncrRead \/ CIncrWrite
    \/ CStore \/ CTick
\* Two request threads run verify_otp statement by statement on the one
\* engine; store_otp and the clock run between their statements.
InitConc == \E reachable \in BOOLEAN : InitWith(reachable, {Key("login", "a@x.com")})
SpecConc == InitConc /\ [][NextConc]_vars

\* ------------------------------------------------- the issuing threads
\* Lines 62-74 of store_otp: otp_data is built and the store is chosen.
IBegin == \E t \in Threads, k \in active, c \in Codes :
    /\ th[t].pc = "idle"
    /\ Goes(t, [Idle EXCEPT
                  !.pc = IF use_redis /\ redis_client
                         THEN "store_setex" ELSE "store_memory",
                  !.key = k, !.otp = c,
                  !.data = NewOtpData(c, PurposeOf(k), now)])
    /\ UNCHANGED <<memory_store, redis>>

\* The write of thread t has happened: it is the last writer of its key.
Written(t) ==
    /\ th' = [th EXCEPT ![t].pc = "store_return"]
    /\ issued' = [issued EXCEPT ![th[t].key] =
                     [code |-> th[t].otp, at |-> th[t].data.created_at]]
    /\ wins' = [wins EXCEPT ![th[t].key] = 0]
    /\ guesses' = [guesses EXCEPT ![th[t].key] = 0]
    /\ locked' = [locked EXCEPT ![th[t].key] = FALSE]
    /\ ret' = NoCall
    /\ UNCHANGED <<now, use_redis, redis_client, failed,
                   twin, twin_ret, active, web>>

\* Line 77: setex(key, 120, json.dumps(otp_data)).
ISetex == \E t \in Threads :
    /\ th[t].pc = "store_setex"
    /\ redis' = RedisSetex(redis, th[t].key, StoreTtl,
                           json_dumps(th[t].data), now)
    /\ Written(t)
    /\ UNCHANGED memory_store

\* Line 85: self.memory_store[key] = otp_data.
IMemory == \E t \in Threads :
    /\ th[t].pc = "store_memory"
    /\ memory_store' = [memory_store EXCEPT ![th[t].key] = th[t].data]
    /\ Written(t)
    /\ UNCHANGED redis

\* Lines 78 and 86: return True.
IReturn == \E t \in Threads :
    /\ th[t].pc = "store_return"
    /\ th' = [th EXCEPT ![t] = Idle]
    /\ ret' = CallOf("store", th[t].key, th[t].otp,
                     Out(World, TRUE, "", "none", use_redis /\ redis_client, FALSE))
    /\ UNCHANGED <<now, engine, ghost, twin, twin_ret, active, web>>

\* The clock, between the statements of the issuing threads.
ITick == \E d \in IssueClockSteps :
    ClockCall(d) /\ UNCHANGED <<twin, twin_ret, th, active, web>>

\* verify_otp runs as one step between the statements of the issuing threads.
NextIssue == IBegin \/ ISetex \/ IMemory \/ IReturn \/ VerifyOtp \/ ITick
InitIssue == \E reachable \in BOOLEAN : InitWith(reachable, {Key("login", "a@x.com")})
\* Two request threads run store_otp statement by statement on the one
\* engine; no shared-store command raises.
SpecIssue == InitIssue /\ [][NextIssue]_vars

\* ------------------------------------------------------------ the routes
\* The account row of the one registered user.
Account == [id |-> 1, email |-> "a@x.com"]
\* The e-mail addresses and passwords a login request carries.
LoginEmails == {"a@x.com", "nobody@x.com"}
Passwords == {"secret", "guess"}
\* The "remember" box and the ?next= target of the login requests sent: each
\* leaves a mark in the session's pending fields.
LoginForms ==
    {[remember |-> FALSE, next |-> "/projects"], [remember |-> TRUE, next |-> ""]}
\* What the SMTP session of a request's send_otp does.
WebSmtp == {"sent", "smtp_error"}
\* werkzeug's generate_password_hash / check_password_hash.
generate_password_hash(password) == <<"pbkdf2", password>>
check_password_hash(pwhash, password) == pwhash = generate_password_hash(password)
\* user.password_hash of the account.
AccountPasswordHash == generate_password_hash("secret")

Resp(route, result, target) ==
    [route |-> route, result |-> result, target |-> target]
\* login_user(user, remember=remember)
login_user(id, remember) == [id |-> id, remember |-> remember]
\* The request makes no call of the engine.
NoEngineCall == ret' = NoCall /\ UNCHANGED <<now, engine, ghost>>

\* User.query.filter_by(email=email).first()
FindUser(email) == IF user # None /\ email = Account.email THEN user ELSE None
\* The answer that tells an unknown address from a wrong password.
login_failed_reveals(found) ==
    IF found THEN "invalid_credentials" ELSE "unknown_email"
\* flash('Invalid email or password.', 'error'), whether or not a row was
\* found for the address.
login_failed(found) == "invalid_credentials"

\* POST /login with the given e-mail address and password, by a browser that
\* is not logged in.
LoginAs(email, password) ==
    /\ UNCHANGED <<twin, twin_ret, th, active, email_enabled, accounts, areq>>
    /\ IF FindUser(email) # None
          /\ check_password_hash(AccountPasswordHash, password)
       THEN \E form \in LoginForms :
            LET remember == form.remember
                next == form.next
            IN
            IF TwoFactorEnabled(user)
            THEN \E c \in Codes, smtp \in WebSmtp :
                   /\ session' = [session EXCEPT
                                    !.pending_user_id = Account.id,
                                    !.pending_remember = remember,
                                    !.pending_next = next]
                   /\ SendCall(Key("login", email), c, NoFault, smtp)
                   /\ resp' = Resp("login",
                                   IF ret'.ok THEN "otp_modal"
                                   ELSE "send_failed", "")
                   /\ dead' = FALSE
                   /\ UNCHANGED <<current_user, user>>
            ELSE /\ current_user' = login_user(Account.id, remember)
                 /\ resp' = Resp("login", "logged_in",
                                 IF next # "" THEN next ELSE "dashboard")
                 /\ NoEngineCall
                 /\ UNCHANGED <<session, user, dead>>
       ELSE /\ resp' = Resp("login", login_failed(FindUser(email) # None), "")
            /\ NoEngineCall
            /\ UNCHANGED <<session, current_user, user, dead>>

\* POST /login with both fields filled in.
Login ==
    IF current_user.id # 0
    THEN /\ resp' = Resp("login", "already_logged_in", "dashboard")
         /\ NoEngineCall
         /\ UNCHANGED <<twin, twin_ret, th, active, email_enabled, accounts, areq,
                        session, current_user, user, dead>>
    ELSE \E email \in LoginEmails, password \in Passwords :
            LoginAs(email, password)

\* The password and its confirmation in a registration form; the other
\* fields are filled in and valid, the address is the account's.
RegisterForms ==
    {[password |-> "secret", confirm_password |-> "secret"],
     [password |-> "secret", confirm_password |-> "guess"]}

\* A registration that keeps the account row and the pending identity only
\* when the verification e-mail went out.
RegisterRollsBack ==
    /\ current_user.id = 0 /\ user = None
    /\ \E two_factor \in BOOLEAN, c \in Codes, smtp \in WebSmtp :
          /\ SendCall(Key("signup", Account.email), c, NoFault, smtp)
          /\ user' = IF ret'.ok THEN NewUser(two_factor) ELSE None
          /\ session' = IF ret'.ok
                         THEN [session EXCEPT !.pending_user_id = Account.id,
                                              !.pending_purpose = "signup"]
                         ELSE session
          /\ resp' = Resp("register",
                          IF ret'.ok THEN "otp_modal" ELSE "send_failed", "")
          /\ dead' = FALSE
    /\ UNCHANGED <<twin, twin_ret, th, active, email_enabled, accounts, areq, current_user>>
\* POST /register (and /register-design, which differs in the role only).
Register ==
    /\ UNCHANGED <<twin, twin_ret, th, active, email_enabled, accounts, areq>>
    /\ IF current_user.id # 0
       THEN /\ resp' = Resp("register", "already_logged_in", "dashboard")
            /\ NoEngineCall
            /\ UNCHANGED <<session, current_user, user, dead>>
       ELSE \E form \in RegisterForms :
            IF form.password # form.confirm_password
            THEN /\ resp' = Resp("register", "invalid_form", "")
                 /\ NoEngineCall
                 /\ UNCHANGED <<session, current_user, user, dead>>
            ELSE IF FindUser(Account.email) # None
            THEN /\ resp' = Resp("register", "email_taken", "")
                 /\ NoEngineCall
                 /\ UNCHANGED <<session, current_user, user, dead>>
            ELSE \E two_factor \in BOOLEAN, c \in Codes, smtp \in WebSmtp :
                   /\ generate_password_hash(form.password) = AccountPasswordHash
                   /\ user' = NewUser(two_factor)
                   /\ session' = [session EXCEPT
                                    !.pending_user_id = Account.id,
                                    !.pending_purpose = "signup"]
                   /\ SendCall(Key("signup", Account.email), c, NoFault, smtp)
                   /\ resp' = Resp("register",
                                   IF ret'.ok THEN "otp_modal"
                                   ELSE "send_failed", "")
                   /\ dead' = FALSE
                   /\ UNCHANGED current_user

\* POST /verify-otp: otp and purpose come from the request.
VerifyOtpRoute == \E otp \in Codes \cup {""}, purpose \in Purposes :
    /\ UNCHANGED <<twin, twin_ret, th, active, email_enabled, accounts, areq>>
    /\ IF otp = ""
       THEN /\ resp' = Resp("verify", "otp_required", "")
            /\ NoEngineCall
            /\ UNCHANGED <<session, current_user, user, dead>>
       ELSE IF session.pending_user_id = 0
       THEN /\ resp' = Resp("verify", "no_pending", "")
            /\ NoEngineCall
            /\ UNCHANGED <<session, current_user, user, dead>>
       ELSE /\ VerifyCall(Key(purpose, Account.email), otp, NoFault)
            /\ IF ret'.ok
               THEN /\ user' = mark_otp_verified(user)
                    /\ IF session.pending_purpose = "signup"
                       THEN /\ current_user' = login_user(Account.id, TRUE)
                            /\ session' = [session EXCEPT
                                             !.pending_user_id = 0,
                                             !.pending_purpose = ""]
                            /\ resp' = Resp("verify", "registered", "dashboard")
                       ELSE /\ current_user' =
                                 login_user(Account.id, session.pending_remember)
                            /\ session' = [session EXCEPT
                                             !.pending_user_id = 0,
                                             !.pending_remember = FALSE,
                                             !.pending_next = ""]
                            /\ resp' = Resp("verify", "logged_in",
                                   LET next_page == session'.pending_next IN
                                   IF next_page # "" THEN next_page ELSE "dashboard")
                    /\ UNCHANGED dead
               ELSE /\ resp' = Resp("verify", "otp_failed", "")
                    /\ dead' = (dead \/ Category(ret') \in
                                   {"TooManyAttempts", "NotFoundOrExpired"})
                    /\ UNCHANGED <<session, current_user, user>>

\* POST /resend-otp: purpose comes from the request.
ResendOtp == \E purpose \in Purposes :
    /\ UNCHANGED <<twin, twin_ret, th, active, email_enabled, accounts, areq>>
    /\ IF session.pending_user_id = 0
       THEN /\ resp' = Resp("resend", "no_pending", "")
            /\ NoEngineCall
            /\ UNCHANGED <<session, current_user, user, dead>>
       ELSE \E c \in Codes, smtp \in WebSmtp :
              /\ SendCall(Key(purpose, Account.email), c, NoFault, smtp)
              /\ resp' = Resp("resend",
                              IF ret'.ok THEN "resent" ELSE "resend_failed", "")
              /\ dead' = FALSE
              /\ UNCHANGED <<session, current_user, user>>

\* Time passes between two requests.
WebTick == \E d \in WebClockSteps :
    /\ ClockCall(d)
    /\ resp' = NoResp
    /\ UNCHANGED <<twin, twin_ret, th, active, email_enabled, accounts, areq,
                   session, current_user, user, dead>>

InitAuth == \E reachable \in BOOLEAN, two_factor \in BOOLEAN :
    InitSite(reachable, Keys, TRUE, NewUser(two_factor))
NextAuth == Login \/ VerifyOtpRoute \/ ResendOtp \/ WebTick
\* One browser sends login, code and resend requests to the application,
\* where the account is registered; no shared-store command raises.
SpecAuth == InitAuth /\ [][NextAuth]_vars

\* Time passes between two requests of the browser that registers.
SignupTick == \E d \in SignupClockSteps :
    /\ ClockCall(d)
    /\ resp' = NoResp
    /\ UNCHANGED <<twin, twin_ret, th, active, email_enabled, accounts, areq,
                   session, current_user, user, dead>>
InitSignup == \E reachable \in BOOLEAN : InitSite(reachable, Keys, TRUE, None)
NextSignup ==
    Register \/ Login \/ VerifyOtpRoute \/ ResendOtp \/ SignupTick
\* One browser registers the account and then sends login, code and resend
\* requests; no shared-store command raises.
SpecSignup == InitSignup /\ [][NextSignup]_vars


\* ------------------------------------------------------- the admin pages
\* User.is_admin
is_admin(row) == row.role = "admin"
\* User.query.filter_by(role='admin').count()
AdminCount(table) ==
    Cardinality({i \in Ids : table[i] # None /\ table[i].role = "admin"})
\* @login_required: the session's user id loads a row (load_user).
Authenticated(actor) == accounts[actor] # None
\* @admin_required
admin_required(actor) == Authenticated(actor) /\ is_admin(accounts[actor])
\* The values of the 'role' field of a role form.
RoleInputs == Roles \cup {"owner"}
\* What the admin pages leave alone.
AdminFrame ==
    UNCHANGED <<now, engine, ghost, ret, twin, twin_ret, th, active,
                email_enabled, session, current_user, user, resp, dead>>
\* Thread t has loaded its rows and passed its checks; the commit is next.
Loaded(t, op, actor, target, role) ==
    /\ areq[t].pc = "idle"
    /\ areq' = [areq EXCEPT ![t] =
                  [pc |-> "commit", op |-> op, actor |-> actor,
                   target |-> target, role |-> role,
                   seen |-> accounts[target].role]]
    /\ UNCHANGED accounts
    /\ AdminFrame
\* Thread t is at the commit of op.
AtCommit(t, op) == areq[t].pc = "commit" /\ areq[t].op = op
\* db.session.delete(row); db.session.commit(): the row is gone, if another
\* request has not deleted it already.
Deleted(t) ==
    /\ accounts' = [accounts EXCEPT ![areq[t].target] = None]
    /\ areq' = [areq EXCEPT ![t] = NoRequest]
    /\ AdminFrame

\* update_user_role up to the last-admin check (lines 267-279).
UpdateUserRoleBegin ==
    \E t \in Threads, actor \in Ids, target \in Ids, new_role \in RoleInputs :
        /\ admin_required(actor)
        /\ accounts[target] # None
        /\ new_role \in Roles
        /\ ~(/\ accounts[target].role = "admin" /\ new_role # "admin"
             /\ AdminCount(accounts) <= 1)
        /\ Loaded(t, "update_user_role", actor, target, new_role)
\* user.role = new_role; db.session.commit() (lines 281-282): the row is
\* updated when the role differs from the one loaded and the row still exists.
UpdateUserRoleCommit == \E t \in Threads :
    /\ AtCommit(t, "update_user_role")
    /\ accounts' =
          IF accounts[areq[t].target] # None /\ areq[t].role # areq[t].seen
          THEN [accounts EXCEPT ![areq[t].target].role = areq[t].role]
          ELSE accounts
    /\ areq' = [areq EXCEPT ![t] = NoRequest]
    /\ AdminFrame

\* delete_user up to the last-admin check (lines 290-302).
DeleteUserBegin == \E t \in Threads, actor \in Ids, target \in Ids :
    /\ admin_required(actor)
    /\ accounts[target] # None
    /\ target # actor
    /\ ~(accounts[target].role = "admin" /\ AdminCount(accounts) <= 1)
    /\ Loaded(t, "delete_user", actor, target, "")
\* Lines 304-305 of delete_user.
DeleteUserCommit == \E t \in Threads :
    AtCommit(t, "delete_user") /\ Deleted(t)

\* delete_client_user up to the role check (lines 415-421).
DeleteClientUserBegin == \E t \in Threads, actor \in Ids, target \in Ids :
    /\ admin_required(actor)
    /\ accounts[target] # None
    /\ accounts[target].role = "client"
    /\ Loaded(t, "delete_client_user", actor, target, "")
\* Lines 424-425 of delete_client_user.
DeleteClientUserCommit == \E t \in Threads :
    AtCommit(t, "delete_client_user") /\ Deleted(t)

\* delete_account (profile) with 'DELETE' typed and the right password, up to
\* the commit of the activity row (lines 180-200).
DeleteAccountBegin == \E t \in Threads, actor \in Ids :
    /\ Authenticated(actor)
    /\ Loaded(t, "delete_account", actor, actor, "")
\* db.session.delete(current_user); db.session.commit() (lines 207-208).
DeleteAccountCommit == \E t \in Threads :
    AtCommit(t, "delete_account") /\ Deleted(t)

\* The user table at start-up: every id has a row, at least one is an admin.
InitAdmin ==
    \E roles \in [Ids -> Roles] :
        /\ \E i \in Ids : roles[i] = "admin"
        /\ InitTable(FALSE, Keys, TRUE, None, [i \in Ids |-> UserRow(roles[i])])
NextAdmin ==
    \/ UpdateUserRoleBegin \/ UpdateUserRoleCommit
    \/ DeleteUserBegin \/ DeleteUserCommit
    \/ DeleteClientUserBegin \/ DeleteClientUserCommit
    \/ DeleteAccountBegin \/ DeleteAccountCommit
\* Two request threads run the role and delete handlers of the admin and
\* profile pages; each handler checks, then commits.
SpecAdmin == InitAdmin /\ [][NextAdmin]_vars

\* ------------------------------------------------- restrictions and bans
\* A DateTime column that holds the time t; None holds no time.
At(t) == [at |-> t]
HasTime(column) == column # None
\* The restriction columns as an expired restriction leaves them.
Unrestricted(row) ==
    [row EXCEPT !.is_restricted = FALSE, !.restriction_until = None,
                !.restriction_reason = None]
\* A restriction that never lapses: the columns are never reset.
is_restricted_never_lapses(row, t) == [val |-> row.is_restricted, row |-> row]
\* User.is_currently_restricted at time t: the answer and the row after it.
is_currently_restricted(row, t) ==
    IF ~row.is_restricted THEN [val |-> FALSE, row |-> row]
    ELSE IF HasTime(row.restriction_until) /\ row.restriction_until.at < t
    THEN [val |-> FALSE, row |-> Unrestricted(row)]
    ELSE [val |-> TRUE, row |-> row]
\* User.is_currently_banned
is_currently_banned(row) == row.is_banned
\* User.can_access_dashboard: "not banned and not restricted"; the
\* restriction is not looked at for a banned row.
can_access_dashboard(row, t) ==
    IF is_currently_banned(row) THEN [val |-> FALSE, row |-> row]
    ELSE LET r == is_currently_restricted(row, t)
         IN [val |-> ~r.val, row |-> r.row]
\* The ban and restriction checks of dashboard (routes.py lines 90-98): t1 and
\* t2 are the clock when can_access_dashboard and when the elif read it.
dashboard(row, t1, t2) ==
    LET c == can_access_dashboard(row, t1) IN
    IF c.val THEN [result |-> "served", row |-> c.row]
    ELSE IF is_currently_banned(c.row)
    THEN [result |-> "logout", row |-> c.row]
    ELSE LET r == is_currently_restricted(c.row, t2) IN
         IF r.val THEN [result |-> "logout", row |-> r.row]
         ELSE [result |-> "served", row |-> r.row]

\* What the client-management pages leave alone.
BanFrame ==
    UNCHANGED <<engine, ghost, ret, twin, twin_ret, th, active,
                email_enabled, session, user, dead, areq>>
\* An admin's client-management request for a client row.
ClientRequest(actor, target) ==
    /\ admin_required(actor)
    /\ accounts[target] # None
    /\ accounts[target].role = "client"
    /\ resp' = NoResp
    /\ UNCHANGED <<now, current_user>>
    /\ BanFrame

\* restrict_client_user
RestrictClientUser == \E actor \in Ids, target \in Ids, days \in RestrictDays :
    /\ ClientRequest(actor, target)
    /\ accounts' = [accounts EXCEPT ![target] =
          [@ EXCEPT !.is_restricted = TRUE,
                    !.restriction_until = At(now + days * SecondsPerDay),
                    !.restriction_reason = "reason"]]
\* unrestrict_client_user
UnrestrictClientUser == \E actor \in Ids, target \in Ids :
    /\ ClientRequest(actor, target)
    /\ accounts' = [accounts EXCEPT ![target] = Unrestricted(@)]
\* ban_client_user
BanClientUser == \E actor \in Ids, target \in Ids :
    /\ ClientRequest(actor, target)
    /\ accounts' = [accounts EXCEPT ![target] =
          Unrestricted([@ EXCEPT !.is_banned = TRUE, !.ban_reason = "reason",
                                 !.banned_at = At(now)])]
\* unban_client_user
UnbanClientUser == \E actor \in Ids, target \in Ids :
    /\ ClientRequest(actor, target)
    /\ accounts' = [accounts EXCEPT ![target] =
          [@ EXCEPT !.is_banned = FALSE, !.ban_reason = None,
                    !.banned_at = None]]

\* GET /dashboard by the logged-in account actor; the clock may move between
\* the two reads of it.
Dashboard == \E actor \in Ids, d \in {0, SecondsPerDay} :
    /\ Authenticated(actor)
    /\ now + d <= MaxDays * SecondsPerDay
    /\ LET o == dashboard(accounts[actor], now, now + d) IN
       /\ accounts' = [accounts EXCEPT ![actor] = o.row]
       /\ resp' = Resp("dashboard", o.result, "")
    /\ current_user' = login_user(actor, FALSE)
    /\ now' = now + d
    /\ BanFrame
\* A day passes between two requests.
BanTick ==
    /\ now + SecondsPerDay <= MaxDays * SecondsPerDay
    /\ now' = now + SecondsPerDay
    /\ resp' = NoResp
    /\ UNCHANGED <<accounts, current_user>>
    /\ BanFrame

\* An admin, a client and a designer, none restricted or banned.
InitBan ==
    InitTable(FALSE, Keys, TRUE, None,
              [i \in Ids |-> UserRow(IF i = 1 THEN "admin"
                                     ELSE IF i = 2 THEN "client"
                                     ELSE "designer")])
NextBan ==
    \/ RestrictClientUser \/ UnrestrictClientUser
    \/ BanClientUser \/ UnbanClientUser
    \/ Dashboard \/ BanTick
\* An admin restricts, bans and releases the client; the accounts ask for
\* the dashboard; days pass.
SpecBan == InitBan /\ [][NextBan]_vars

\* ------------------------------------------------- what the claims read
\* The record the shared store holds under k, as verify_otp would load it.
RedisRec(r, k) == IF r[k] = None THEN None ELSE json_loads(r[k].value)
\* The engine reads the shared store (True) or memory_store (False).
OnRedis == use_redis /\ redis_client
\* The record under k in the store the engine reads.
ActiveRecord(k) == IF OnRedis THEN RedisRec(redis, k) ELSE memory_store[k]
\* No store of world w holds a record under k.
Gone(w, k) == w.redis[k] = None /\ w.memory_store[k] = None
\* The clock has not passed the expires_at of the code last stored for k.
Unexpired(k) == issued[k] # None /\ now <= issued[k].at + ExpiryMinutes * 60
\* The last step was verify_otp for k.
Verified(k) == ret.op = "verify" /\ ret.key = k
\* verify_otp for k with code c, called in this state without a store fault.
IfVerified(k, c) == verify_otp(World, k, c, now, NoFault)

\* ----------------------------------------------------------------- C1
\* C1 (single use): while the code last stored for a key is unused, unexpired
\* and has had fewer than max_attempts wrong guesses, verify_otp with it
\* succeeds and leaves no record under the key; a verify_otp that returned
\* success has removed the record; and once the code has verified, every
\* verify_otp for the key returns NotFoundOrExpired until the next store:
\* success is returned at most once per stored code.
C1_SingleUse ==
    \A k \in active :
        /\ (/\ issued[k] # None /\ wins[k] = 0 /\ ~locked[k]
            /\ guesses[k] < max_attempts /\ Unexpired(k))
           => LET o == IfVerified(k, issued[k].code) IN
              o.ok /\ o.msg = MsgVerified /\ Gone(o.w, k)
        /\ (Verified(k) /\ ret.ok) => (wins[k] = 1 /\ Gone(World, k))
        /\ wins[k] >= 1 =>
              \A c \in Codes :
                  Category(IfVerified(k, c)) = "NotFoundOrExpired"
        /\ wins[k] <= 1
\* The stored code verified, and a second verify_otp with it was refused.
C1_Witness ==
    \E k \in active :
        /\ wins[k] = 1 /\ Verified(k) /\ IsIssued(k, ret.otp)
        /\ ~ret.ok /\ ret.msg = MsgMissing

\* ----------------------------------------------------------------- C3
\* C3 (attempt limiting): after max_attempts wrong guesses against the stored
\* code, verify_otp with the right code returns TooManyAttempts and leaves no
\* record; verify_otp never succeeds on a record whose attempts have reached
\* max_attempts, and no success follows max_attempts answered wrong guesses.
C3_AttemptLimit ==
    \A k \in active :
        /\ (/\ issued[k] # None /\ ~locked[k]
            /\ guesses[k] = max_attempts /\ Unexpired(k))
           => LET o == IfVerified(k, issued[k].code) IN
              ~o.ok /\ o.msg = MsgTooMany /\ Gone(o.w, k)
        /\ (ActiveRecord(k) # None /\ ActiveRecord(k).attempts >= max_attempts)
           => \A c \in Codes : ~IfVerified(k, c).ok
        /\ (Verified(k) /\ ret.ok) => guesses[k] < max_attempts
\* Three wrong guesses were answered, and the right code was then refused
\* with TooManyAttempts.
C3_Witness ==
    \E k \in active :
        /\ Verified(k) /\ IsIssued(k, ret.otp) /\ guesses[k] = max_attempts
        /\ ret.msg = MsgTooMany /\ Gone(World, k)

\* ----------------------------------------------------------------- C4
\* The last step was verify_otp for k with a wrong code, answered with
\* InvalidCode or TooManyAttempts, and it was the n-th such guess.
NthWrongGuess(k, n) ==
    /\ Verified(k) /\ issued[k] # None /\ ~IsIssued(k, ret.otp)
    /\ Category(ret) \in {"InvalidCode", "TooManyAttempts"}
    /\ guesses[k] = n
\* C4 as claimed: the third wrong guess in a row returns TooManyAttempts, and
\* the right code submitted after three wrong guesses fails.
C4_ThirdGuessTooMany ==
    \A k \in active :
        /\ NthWrongGuess(k, 3) => ret.msg = MsgTooMany
        /\ (Verified(k) /\ IsIssued(k, ret.otp) /\ guesses[k] = 3) => ~ret.ok
\* C4 as amended: the third wrong guess in a row returns InvalidCode and
\* leaves the record stored with attempts = 3; the fourth call, with the right
\* code, fails: it is the one that returns TooManyAttempts.
C4_ThirdGuessInvalid ==
    \A k \in active :
        /\ NthWrongGuess(k, 3) =>
              /\ ret.msg = MsgInvalid
              /\ ActiveRecord(k) # None /\ ActiveRecord(k).attempts = 3
        /\ (Verified(k) /\ IsIssued(k, ret.otp) /\ guesses[k] = 3) => ~ret.ok
        /\ (NthWrongGuess(k, 3) /\ Unexpired(k)) =>
              IfVerified(k, issued[k].code).msg = MsgTooMany
\* The third wrong guess has just been answered.
C4_Witness == \E k \in active : NthWrongGuess(k, 3) /\ Unexpired(k)

\* ----------------------------------------------------------------- C5
\* C5 (expiry): a verify_otp made after the expires_at of the stored code
\* (store time + 120 s) does not succeed and returns NotFoundOrExpired,
\* whatever was guessed before.
C5_NoSuccessAfterExpiry ==
    \A k \in active :
        (Verified(k) /\ issued[k] # None /\ ~Unexpired(k))
        => (~ret.ok /\ Category(ret) = "NotFoundOrExpired")

\* ----------------------------------------------------------------- C9
AttemptsInRange(rec) == rec # None => rec.attempts \in 0..max_attempts
\* The record kept under a key across a step has not lost attempts.
NotDecreased(before, after) ==
    (before # None /\ after # None) => after.attempts >= before.attempts
C10_NoExhaustedRecord ==
    \A k \in active :
        ActiveRecord(k) # None => ActiveRecord(k).attempts < max_attempts
\* C10 as amended: the verify_otp call that returns success, returns
\* TooManyAttempts or finds the record expired leaves no record under the
\* key, and no verify_otp leaves an expired record in memory_store; a record
\* that has used up its max_attempts wrong guesses stays stored until the
\* next verify_otp for its key, which removes it without success.
C10_ImmediateDeletion ==
    \A k \in active :
        /\ (Verified(k) /\ (ret.ok \/ ret.msg \in {MsgTooMany, MsgExpired}))
           => Gone(World, k)
        /\ ret.op = "verify" =>
              \A j \in Keys :
                  memory_store[j] # None => ~(memory_store[j].expires_at < now)
        /\ (ActiveRecord(k) # None /\ ActiveRecord(k).attempts >= max_attempts)
           => \A c \in Codes :
                 LET o == IfVerified(k, c) IN
                 /\ ~o.ok /\ Gone(o.w, k)
                 /\ Unexpired(k) => o.msg = MsgTooMany
\* A verify_otp found the attempt limit reached and removed the record.
C10_Witness ==
    \E k \in active :
        Verified(k) /\ ret.msg = MsgTooMany /\ Gone(World, k) /\ locked[k]

\* ----------------------------------------------------------------- C6
\* C6 (re-issue invalidates): after a store_otp of code C2 for a key whose
\* previous code was C1 # C2, verify_otp with C1 fails, and exactly one record
\* exists for the key, with the hash of C2 and attempts = 0; also when this
\* store_otp is the one that falls back to memory_store.
C6_ReissueInvalidates ==
    [][\A k \in active :
        (/\ ret'.op = "store" /\ ret'.key = k
         /\ issued[k] # None /\ issued[k].code # ret'.otp)
        => LET after == [use_redis |-> use_redis', redis_client |-> redis_client',
                         memory_store |-> memory_store', redis |-> redis']
               rec == IF after.use_redis /\ after.redis_client
                      THEN RedisRec(after.redis, k) ELSE after.memory_store[k]
               holders == {st \in {"redis", "memory"} :
                              IF st = "redis" THEN after.redis[k] # None
                              ELSE after.memory_store[k] # None}
           IN /\ ~verify_otp(after, k, issued[k].code, now', NoFault).ok
              /\ Cardinality(holders) = 1
              /\ rec # None
              /\ rec.hashed_otp = hash_otp(ret'.otp)
              /\ rec.attempts = 0
      ]_vars

\* ----------------------------------------------------------------- C7
\* C7 (fallback equivalence): the engine constructed while the shared store
\* was unreachable serves every call from memory_store, and every verify_otp
\* returns the outcome category the shared-store engine returns for the same
\* call.
C7_FallbackEquivalence ==
    /\ ~twin.use_redis /\ ~twin_ret.touched
    /\ ret.op = twin_ret.op
    /\ ret.op = "verify" => Category(ret) = Category(twin_ret)

\* ----------------------------------------------------------------- C8
\* C8 (permanent degradation): once a shared-store command has raised, no
\* later store_otp, verify_otp or get_otp_status sends the shared store a
\* command.
C8_PermanentDegradation ==
    [][(failed /\ ret'.op # "none") => ~ret'.touched]_vars

\* ----------------------------------------------------------------- C2
\* C2 (no double use): of the verify_otp calls made for a key since its code
\* was stored, overlapping or not, at most one returns success.
C2_AtMostOneSuccess == \A k \in active : wins[k] <= 1

\* ---------------------------------------------------------------- C11
\* C11 (validity window): a verify_otp with the stored code made more than
\* otp_expiry_minutes (60 s) after the code was stored does not succeed.
C11_SixtySecondWindow ==
    \A k \in active :
        (/\ Verified(k) /\ IsIssued(k, ret.otp)
         /\ now > issued[k].at + otp_expiry_minutes * 60)
        => ~ret.ok

\* ---------------------------------------------------------------- C12
\* The record under k is live: stored, unexpired and not exhausted.
LiveRecord(k) ==
    /\ ActiveRecord(k) # None
    /\ now <= ActiveRecord(k).expires_at
    /\ ActiveRecord(k).attempts < max_attempts
\* C12 (wrong-guess frame): a verify_otp with a wrong code on a live record
\* returns InvalidCode and changes the attempts of that record and no other
\* field of any record: attempts grow by exactly one, hashed_otp, purpose,
\* created_at and expires_at are as before, the record stays in the store the
\* engine reads, the other store and the engine's mode are untouched; and
\* while attempts < 3 and the record is unexpired the right code then
\* verifies.
C12_WrongGuessFrame ==
    [][\A k \in active :
        (/\ ret'.op = "verify" /\ ret'.key = k
         /\ LiveRecord(k)
         /\ hash_otp(ret'.otp) # ActiveRecord(k).hashed_otp)
        => LET after == [use_redis |-> use_redis', redis_client |-> redis_client',
                         memory_store |-> memory_store', redis |-> redis']
               rec == IF OnRedis THEN RedisRec(redis', k) ELSE memory_store'[k]
           IN /\ ~ret'.ok /\ ret'.msg = MsgInvalid
              /\ rec = [ActiveRecord(k) EXCEPT !.attempts = @ + 1]
              /\ \A j \in Keys \ {k} :
                    redis'[j] = redis[j] /\ memory_store'[j] = memory_store[j]
              /\ IF OnRedis
                 THEN memory_store' = memory_store
                 ELSE /\ memory_store' = [memory_store EXCEPT ![k] = rec]
                      /\ redis' = redis
              /\ use_redis' = use_redis /\ redis_client' = redis_client
              /\ (rec.attempts < max_attempts /\ now' <= rec.expires_at) =>
                    \A c \in Codes :
                        hash_otp(c) = rec.hashed_otp =>
                            verify_otp(after, k, c, now', NoFault).ok
      ]_vars
\* A wrong guess was answered InvalidCode, the record is still live, and the
\* right code would verify.
C12_Witness ==
    \E k \in active :
        /\ Verified(k) /\ ret.msg = MsgInvalid /\ ~IsIssued(k, ret.otp)
        /\ LiveRecord(k) /\ ActiveRecord(k).attempts \in 1..2
        /\ IfVerified(k, issued[k].code).ok

\* ---------------------------------------------------------------- C13
\* C13 (status probe): in every engine mode get_otp_status returns, and
\* returns true exactly when the store the engine reads holds a live record
\* under the key; it changes no stored state.
C13_StatusProbe ==
    [][\A k \in active :
        (ret'.op = "status" /\ ret'.key = k)
        => /\ ret'.exc = "none"
           /\ ret'.ok <=> (ActiveRecord(k) # None
                           /\ now <= ActiveRecord(k).expires_at)
           /\ UNCHANGED engine
      ]_vars

\* ---------------------------------------------------------------- C14
\* C14 (no escaped exception): every call of a public method returns a
\* value; none ends in an exception, whatever the engine's mode and whichever
\* shared-store command raises.
C14_NoEscapedException == ret.op # "none" => ret.exc = "none"

\* ---------------------------------------------------------------- C15
\* The record send_otp would leave under k for code c, whatever is stored now.
Reissued(k, c) ==
    LET o == send_otp(World, email_enabled, k, c, now, NoFault, "sent")
    IN IF o.w.use_redis /\ o.w.redis_client
       THEN RedisRec(o.w.redis, k) ELSE o.w.memory_store[k]
\* C15 (delivery failure keeps the record): a send_otp whose e-mail is not
\* sent (SMTP failure or e-mail disabled) returns failure with the delivery
\* reason; the record it stored is under the key with attempts = 0 and the
\* hash of the generated code, that code verifies, and the next send_otp for
\* the key replaces the record.
C15_DeliveryFailureKeepsRecord ==
    \A k \in active :
        (ret.op = "send" /\ ret.key = k /\ ~ret.ok)
        => /\ ret.exc = "none"
           /\ ret.msg \in {MsgEmailDisabled, MsgSmtpAuth, MsgSmtpFailed}
           /\ ~email_enabled => ret.msg = MsgEmailDisabled
           /\ ActiveRecord(k) = NewOtpData(ret.otp, PurposeOf(k), now)
           /\ IfVerified(k, ret.otp).ok
           /\ \A c \in Codes :
                 Reissued(k, c) = NewOtpData(c, PurposeOf(k), now)
\* A send_otp has replaced a code and failed to deliver the new one; the
\* record of the new code is stored.
C15_Witness ==
    \E k \in active :
        /\ ret.op = "send" /\ ret.key = k /\ ~ret.ok
        /\ ret.msg \in {MsgEmailDisabled, MsgSmtpFailed}
        /\ now > 0 /\ ActiveRecord(k) # None
        /\ ActiveRecord(k).created_at = now

\* ---------------------------------------------------------------- C16
\* C16 (storage failure on issue): a store_otp or send_otp whose shared-store
\* write raises does not report a storage failure: store_otp has written the
\* record to memory_store in the same call and returned True, send_otp
\* returns what it returns for the same delivery when the write succeeds,
\* and the code issued in that call verifies.
C16_StorageFailureHidden ==
    /\ \A k \in active :
          (ret.op = "send" /\ ret.key = k /\ ret.raised)
          => /\ ret.exc = "none" /\ ret.msg # MsgStoreFailed
             /\ ~use_redis
             /\ memory_store[k] = NewOtpData(ret.otp, PurposeOf(k), now)
             /\ IfVerified(k, ret.otp).ok
    /\ OnRedis =>
          \A k \in active, c \in Codes, smtp \in Smtp :
              LET s == store_otp(World, k, c, now, "setex")
                  o == send_otp(World, email_enabled, k, c, now, "setex", smtp)
                  p == send_otp(World, email_enabled, k, c, now, NoFault, smtp)
              IN /\ s.ok /\ s.exc = "none"
                 /\ s.w.memory_store[k] = NewOtpData(c, PurposeOf(k), now)
                 /\ o.ok = p.ok /\ o.msg = p.msg
                 /\ o.ok = send_otp_email(email_enabled, smtp).ok
\* The shared-store write of a send_otp raised, and the code it issued then
\* verified from memory_store.
C16_Witness ==
    \E k \in active :
        /\ failed /\ ~use_redis /\ redis_client
        /\ Verified(k) /\ ret.ok /\ IsIssued(k, ret.otp) /\ ~ret.touched

\* ---------------------------------------------------------------- C17
\* No store_otp for k is between its first statement and its write.
NoWritePending(k) ==
    \A t \in Threads :
        th[t].key = k => th[t].pc \notin {"store_setex", "store_memory"}
\* The stores that hold a record under k.
Holders(k) ==
    {st \in {"redis", "memory"} :
        IF st = "redis" THEN redis[k] # None ELSE memory_store[k] # None}
\* C17 (concurrent issue): once the store_otp calls for a key have made
\* their writes, in whatever order their statements ran, exactly one record
\* exists for the key; it has the hash written by the last writer and
\* attempts = 0; the last writer's code verifies and no other code does.
C17_LastWriterWins ==
    \A k \in active :
        (/\ NoWritePending(k) /\ issued[k] # None
         /\ wins[k] = 0 /\ guesses[k] = 0 /\ ~locked[k] /\ Unexpired(k))
        => /\ Cardinality(Holders(k)) = 1
           /\ ActiveRecord(k) # None
           /\ ActiveRecord(k).hashed_otp = hash_otp(issued[k].code)
           /\ ActiveRecord(k).attempts = 0
           /\ \A c \in Codes : IfVerified(k, c).ok <=> c = issued[k].code
\* Two store_otp calls for one key, with different codes, ran at the same
\* time and both have written.
C17_Witness ==
    \E k \in active :
        /\ \A t \in Threads : th[t].pc = "store_return" /\ th[t].key = k
        /\ th[1].otp # th[2].otp
        /\ issued[k] # None /\ Unexpired(k)

\* ---------------------------------------------------------------- C18
\* The last request was a password login that matched the account.
PasswordAccepted(r) ==
    r.route = "login" /\ r.result \in {"otp_modal", "send_failed", "logged_in"}
\* C18 (2FA gating): for an account with two-factor enabled, a password
\* login that matches leaves the browser not logged in, with the account as
\* the session's pending identity and a code issued for purpose login; the
\* pending identity is set by nothing but a matching password login; and the
\* browser becomes logged in only in a request whose verify_otp for the
\* account's e-mail address returned success while that identity was pending.
C18_TwoFactorGating ==
    [][(user # None /\ user.two_factor_enabled) =>
        /\ (current_user.id = 0 /\ PasswordAccepted(resp'))
           => /\ current_user' = Anonymous
              /\ session'.pending_user_id = Account.id
              /\ ret'.op = "send" /\ ret'.key = Key("login", Account.email)
              /\ issued'[ret'.key] = [code |-> ret'.otp, at |-> now']
        /\ (session.pending_user_id = 0 /\ session'.pending_user_id # 0)
           => PasswordAccepted(resp')
        /\ (current_user.id = 0 /\ current_user'.id # 0)
           => /\ resp'.route = "verify"
              /\ ret'.op = "verify" /\ ret'.ok /\ ret'.key[3] = Account.email
              /\ session.pending_user_id = Account.id
              /\ current_user'.id = Account.id
      ]_vars
\* The account with two-factor enabled is logged in: its code was verified.
C18_Witness ==
    /\ user.two_factor_enabled /\ current_user.id = Account.id
    /\ resp.route = "verify" /\ resp.result = "logged_in" /\ ret.ok

\* ---------------------------------------------------------------- C19
\* The record under k in the store the engine reads after the step.
ActiveRecordAfter(k) ==
    IF use_redis' /\ redis_client' THEN RedisRec(redis', k) ELSE memory_store'[k]
\* C19 (wrong code keeps the challenge): a code submission answered
\* InvalidCode leaves the session as it was, with its pending identity, and
\* the browser not logged in; no code is issued; the record has one attempt
\* more and is otherwise the same; while attempts < 3 and the record is
\* unexpired the right code verifies; and a submission whose code verifies
\* logs the pending account in.
C19_InvalidCodeKeepsChallenge ==
    [][/\ (resp'.route = "verify" /\ ret'.op = "verify"
           /\ Category(ret') = "InvalidCode")
          => LET k == ret'.key
                 rec == ActiveRecordAfter(k)
                 after == [use_redis |-> use_redis', redis_client |-> redis_client',
                           memory_store |-> memory_store', redis |-> redis']
             IN /\ session' = session /\ session'.pending_user_id = Account.id
                /\ current_user' = current_user
                /\ issued' = issued
                /\ ActiveRecord(k) # None
                /\ rec = [ActiveRecord(k) EXCEPT !.attempts = @ + 1]
                /\ (rec.attempts < max_attempts /\ now' <= rec.expires_at) =>
                      \A c \in Codes :
                          hash_otp(c) = rec.hashed_otp =>
                              verify_otp(after, k, c, now', NoFault).ok
       /\ (resp'.route = "verify" /\ ret'.op = "verify" /\ ret'.ok)
          => /\ session.pending_user_id = Account.id
             /\ current_user'.id = Account.id
      ]_vars
\* A wrong code was answered InvalidCode and the right code, submitted next,
\* logged the account in.
C19_Witness ==
    \E k \in Keys :
        /\ resp.route = "verify" /\ resp.result = "logged_in"
        /\ ret.key = k /\ ret.ok /\ guesses[k] >= 1
        /\ current_user.id = Account.id

\* ---------------------------------------------------------------- C20
\* C20 (dead challenge): once a code submission has been answered
\* TooManyAttempts or NotFoundOrExpired, no code submission of the session
\* succeeds and the browser is not logged in until send_otp has issued a new
\* code, in a resend or in a new password login.
C20_DeadChallenge == dead => current_user.id = 0


\* ---------------------------------------------------------------- C21
\* A login request whose address has no account row.
UnknownEmail(email) == FindUser(email) = None
\* A login request for the account with a password that does not match.
WrongPassword(email, password) ==
    FindUser(email) # None /\ ~check_password_hash(AccountPasswordHash, password)
\* C21 (login non-disclosure): for a browser that is not logged in, a login
\* with a wrong password for the account and a login with an unknown address
\* have the same outcomes: every step one of them can take the other can
\* take, and that step answers with the one generic error, calls no method
\* of the engine (no code is issued), leaves the session as it was (no
\* pending identity is stored) and leaves the browser not logged in.
C21_LoginNonDisclosure ==
    [][current_user.id = 0 =>
        \A e1 \in LoginEmails, p1 \in Passwords,
           e2 \in LoginEmails, p2 \in Passwords :
            (WrongPassword(e1, p1) /\ UnknownEmail(e2))
            => /\ LoginAs(e1, p1) <=> LoginAs(e2, p2)
               /\ (LoginAs(e1, p1) \/ LoginAs(e2, p2))
                  => /\ resp' = Resp("login", "invalid_credentials", "")
                     /\ ret' = NoCall
                     /\ issued' = issued
                     /\ session' = session
                     /\ current_user' = Anonymous
                     /\ UNCHANGED <<engine, user>>
      ]_vars
\* A login was refused where the account exists, after a password login had
\* left its pending identity in the session.
C21_Witness ==
    /\ resp = Resp("login", "invalid_credentials", "")
    /\ user # None /\ current_user = Anonymous /\ ret = NoCall
    /\ session.pending_user_id = Account.id


\* ---------------------------------------------------------------- C22
\* The engine after the step.
WorldAfter ==
    [use_redis |-> use_redis', redis_client |-> redis_client',
     memory_store |-> memory_store', redis |-> redis']
\* C22 (signup flow): a registration that passes validation creates the
\* account row, unverified, and makes it the session's pending identity with
\* purpose signup, whether or not the code was sent; no request removes the
\* row, and a failed code submission leaves it as it was; the code a resend
\* for purpose signup issues verifies under the signup key, sent or not; and
\* a submission for purpose signup whose code verifies logs the account in
\* and marks it verified.
C22_SignupFlow ==
    [][/\ (resp'.route = "register"
           /\ resp'.result \in {"otp_modal", "send_failed"})
          => /\ user = None
             /\ user' # None /\ ~user'.otp_verified
             /\ session'.pending_user_id = Account.id
             /\ session'.pending_purpose = "signup"
             /\ ret'.op = "send" /\ ret'.key = Key("signup", Account.email)
             /\ current_user' = Anonymous
       /\ user # None => user' # None
       /\ (resp'.route = "verify" /\ resp'.result = "otp_failed")
          => user' = user
       /\ (resp'.route = "resend" /\ ret'.op = "send"
           /\ ret'.key = Key("signup", Account.email))
          => /\ verify_otp(WorldAfter, ret'.key, ret'.otp, now', NoFault).ok
             /\ session' = session /\ session'.pending_user_id = Account.id
             /\ user' = user
       /\ (resp'.route = "verify" /\ ret'.op = "verify" /\ ret'.ok
           /\ ret'.key = Key("signup", Account.email))
          => /\ current_user'.id = Account.id
             /\ user' # None /\ user'.otp_verified
      ]_vars
\* The account registered in this run was verified by a code issued for
\* signup after time had passed, and is logged in.
C22_Witness ==
    /\ resp = Resp("verify", "registered", "dashboard")
    /\ ret.op = "verify" /\ ret.ok /\ ret.key = Key("signup", Account.email)
    /\ issued[ret.key].at > 0
    /\ user # None /\ user.otp_verified /\ current_user.id = Account.id


\* ---------------------------------------------------------------- C23
\* The keys under which a code has been issued in this session.
IssuedKeys == {k \in Keys : issued[k] # None}
\* C23 (resend uses the pending challenge's key): when the session has one
\* challenge, the only code issued so far, a resend issues its code under
\* the key of that challenge, and the code that was outstanding, if it is
\* not the code issued again, no longer verifies.
C23_ResendPendingKey ==
    [][(resp'.route = "resend" /\ ret'.op = "send") =>
        \A k \in Keys :
            IssuedKeys = {k}
            => /\ ret'.key = k
               /\ issued[k].code # ret'.otp
                  => ~verify_otp(WorldAfter, k, issued[k].code, now', NoFault).ok
      ]_vars


\* ---------------------------------------------------------------- C24
\* C24 (brute-force bound under concurrency): of the verify_otp calls begun
\* since a code was stored, at most max_attempts (3) have compared a wrong
\* code with its hash and answered InvalidCode, however the statements of
\* concurrent calls interleave.  (Until TooManyAttempts is answered, every
\* wrong guess counted was answered InvalidCode.)
C24_BruteForceBound ==
    \A k \in active : ~locked[k] => guesses[k] <= max_attempts


\* ---------------------------------------------------------------- C25
\* Thread t's verify_otp for k holds a record it read before the code now
\* issued was stored: the record of an older code.
HoldsOld(t, k) ==
    /\ th[t].key = k /\ th[t].stale
    /\ th[t].data # None
    /\ th[t].data.hashed_otp # hash_otp(issued[k].code)
\* C25 (verify never undoes an issue): when the record under a key is the
\* record of the code last stored, the statement with which a verify_otp
\* that read an older code's record returns (its write-back after a wrong
\* guess, its delete or pop after a match, exhaustion or expiry) leaves that
\* record as it is.
C25_IssueNotUndone ==
    [][\A k \in active, t \in Threads :
        (/\ issued[k] # None /\ HoldsOld(t, k)
         /\ th[t].pc # "idle" /\ th'[t].pc = "idle"
         /\ ActiveRecord(k) # None
         /\ ActiveRecord(k).hashed_otp = hash_otp(issued[k].code))
        => ActiveRecordAfter(k) = ActiveRecord(k)
      ]_vars


\* ---------------------------------------------------------------- C26
\* The in-memory record under j has expired at the time of the call.
ExpiredInMemory(j) ==
    memory_store[j] # None /\ memory_store[j].expires_at < now
\* C26 (key isolation): a store_otp or verify_otp for key k leaves what the
\* shared store and memory_store hold under every other key as it was (hash,
\* attempts, expiry), except that verify_otp removes in-memory records that
\* have expired; and a code verifies under a key only if it is the code
\* issued for that key, whatever was issued for the other purpose.
C26_KeyIsolation ==
    /\ [][\A k \in Keys : \A j \in Keys \ {k} :
            (ret'.op \in {"store", "verify"} /\ ret'.key = k)
            => /\ redis'[j] = redis[j]
               /\ \/ memory_store'[j] = memory_store[j]
                  \/ /\ ret'.op = "verify" /\ ExpiredInMemory(j)
                     /\ memory_store'[j] = None
         ]_vars
    /\ [](\A j \in Keys, c \in Codes : IfVerified(j, c).ok => IsIssued(j, c))
\* Both purposes hold a code, the codes differ, a wrong guess under one key
\* was counted, and the other key's record has no attempt counted and still
\* verifies with its own code only.
C26_Witness ==
    \E k \in Keys : \E j \in Keys \ {k} :
        /\ Verified(k) /\ Category(ret) = "InvalidCode"
        /\ ActiveRecord(k) # None /\ ActiveRecord(k).attempts >= 1
        /\ ActiveRecord(j) # None /\ ActiveRecord(j).attempts = 0
        /\ issued[j].code # issued[k].code
        /\ IfVerified(j, issued[j].code).ok
        /\ ~IfVerified(j, issued[k].code).ok


\* ---------------------------------------------------------------- C27
\* The session holds what a password login stored for the code step: every
\* form of LoginForms sets pending_remember or pending_next.
PasswordLoginPending ==
    /\ session.pending_user_id # 0
    /\ session.pending_remember \/ session.pending_next # ""
\* C27 (session flags): a code submission that completes a pending password
\* login calls login_user with the "remember" value of that login and clears
\* pending_user_id, pending_remember and pending_next, also when the
\* session still has the pending_purpose of an earlier signup.
C27_PendingFlagsApplied ==
    [][(/\ PasswordLoginPending
        /\ resp'.route = "verify" /\ ret'.op = "verify" /\ ret'.ok)
       => /\ current_user' = login_user(Account.id, session.pending_remember)
          /\ session'.pending_user_id = 0
          /\ session'.pending_remember = FALSE
          /\ session'.pending_next = ""
      ]_vars


\* ---------------------------------------------------------------- C28
\* C28 (destination survives the code step): a code submission that completes
\* a password login redirects to the pending_next stored by that login, as
\* the login without two-factor redirects to its next target, and to the
\* dashboard only when no target was given.
C28_NextTargetKept ==
    [][(resp'.route = "verify" /\ resp'.result = "logged_in")
       => resp'.target = IF session.pending_next # ""
                         THEN session.pending_next ELSE "dashboard"
      ]_vars


\* ---------------------------------------------------------------- C29
\* C29 (last admin): after any sequence and interleaving of update_user_role,
\* delete_user, delete_client_user and delete_account requests, the user
\* table has at least one row with role admin.
C29_LastAdminKept == AdminCount(accounts) >= 1


\* A step in which account i asked for the dashboard.
AskedDashboard(i) ==
    resp'.route = "dashboard" /\ current_user' # None /\ current_user'.id = i
\* The restriction of row blocks at time t: restriction_until absent or
\* still in the future.
RestrictionInForce(row, t) ==
    /\ row.is_restricted
    /\ (~HasTime(row.restriction_until) \/ row.restriction_until.at > t)
\* The restriction of row has passed at time t.
RestrictionPassed(row, t) ==
    row.is_restricted /\ HasTime(row.restriction_until)
    /\ row.restriction_until.at < t
\* The restriction columns of row are reset.
RestrictionCleared(row) ==
    /\ ~row.is_restricted
    /\ row.restriction_until = None
    /\ row.restriction_reason = None
\* A banned account, or one whose restriction is in force when the page is
\* decided, is redirected to logout.
BlockedWhileInForce(i) ==
    (AskedDashboard(i) /\ (accounts[i].is_banned \/ RestrictionInForce(accounts[i], now')))
        => resp'.result = "logout"
\* A ban is lifted by no step but an admin's request, and the step that bans
\* an account leaves it with no restriction.
BanKeptAndClears(i) ==
    /\ (accounts[i].is_banned /\ ~accounts'[i].is_banned)
           => (resp' = NoResp /\ now' = now)
    /\ (~accounts[i].is_banned /\ accounts'[i].is_banned)
           => RestrictionCleared(accounts'[i])
\* A restriction with no restriction_until blocks a row that is not banned,
\* at every time of the clock.
AbsentUntilBlocks ==
    \A t1, t2 \in {d * SecondsPerDay : d \in 0..MaxDays} :
        LET row == [UserRow("client") EXCEPT !.is_restricted = TRUE,
                                             !.restriction_reason = "reason"]
        IN dashboard(row, t1, t2) = [result |-> "logout", row |-> row]

=============================================================================
